---- MODULE Spec2Model ----
(***************************************************************************)
(* Model of ESLint's autoconfig (lib/autoconfig.js) and of the part of the *)
(* init wizard that consumes it (lib/config/config-initializer.js).        *)
(*                                                                         *)
(* JavaScript values are encoded as tagged records [k |-> kind, v |-> ..]: *)
(*   "num"  a number            "str"  a string       "bool" a boolean     *)
(*   "obj"  an object, v is the sequence of its [name, val] pairs in key   *)
(*          insertion order (the order Object.keys reports)                *)
(*   "arr"  an array, v is the sequence of its elements                    *)
(***************************************************************************)
EXTENDS Integers, Sequences, FiniteSets, TLC

\* ------------------------------------------------------------------------
\* Bounds of the model
\* ------------------------------------------------------------------------
MaxOpts == 2
MaxEnum == 2
MaxFiles == 2
MaxDiags == 2
MaxErrors == 1

\* ------------------------------------------------------------------------
\* Program constants
\* ------------------------------------------------------------------------
MAX_CONFIG_COMBINATIONS == 16
DefaultSeverity == 2

\* ------------------------------------------------------------------------
\* Values
\* ------------------------------------------------------------------------
Num(n) == [k |-> "num", v |-> n]
Str(s) == [k |-> "str", v |-> s]
Bool(b) == [k |-> "bool", v |-> b]
Obj(pairs) == [k |-> "obj", v |-> pairs]
Arr(elems) == [k |-> "arr", v |-> elems]

IsArr(x) == x.k = "arr"

\* ------------------------------------------------------------------------
\* Helpers of autoconfig.js
\* ------------------------------------------------------------------------
explodeArray(xs) == [i \in 1..Len(xs) |-> Arr(<<xs[i]>>)]

\* one argument of [].concat(...): an array argument is spread, any other
\* value is appended as a single element
ConcatArg(x) == IF IsArr(x) THEN x.v ELSE <<x>>

\* arr2.forEach(function(x2) { res.push([].concat(x1, x2)); })
RECURSIVE CombineInner(_, _, _)
CombineInner(x1, arr2, j) ==
    IF j > Len(arr2) THEN <<>>
    ELSE <<Arr(ConcatArg(x1) \o ConcatArg(arr2[j]))>> \o CombineInner(x1, arr2, j + 1)

\* arr1.forEach(function(x1) { ... })
RECURSIVE CombineOuter(_, _, _)
CombineOuter(arr1, arr2, i) ==
    IF i > Len(arr1) THEN <<>>
    ELSE CombineInner(arr1[i], arr2, 1) \o CombineOuter(arr1, arr2, i + 1)

\* mutant: the loops nested the other way round (column-major order)
combineArrays_ColumnMajor(arr1, arr2) ==
    IF Len(arr1) = 0 THEN explodeArray(arr2)
    ELSE IF Len(arr2) = 0 THEN explodeArray(arr1)
    ELSE [n \in 1..(Len(arr1) * Len(arr2)) |->
            Arr(ConcatArg(arr1[((n - 1) % Len(arr1)) + 1])
                    \o ConcatArg(arr2[((n - 1) \div Len(arr1)) + 1]))]

combineArrays(arr1, arr2) ==
    IF Len(arr1) = 0 THEN explodeArray(arr2)
    ELSE IF Len(arr2) = 0 THEN explodeArray(arr1)
    ELSE CombineOuter(arr1, arr2, 1)

\* position of property name p in a sequence of [name, ..] records, 0 if absent
RECURSIVE KeyIndex(_, _, _)
KeyIndex(pairs, p, i) ==
    IF i > Len(pairs) THEN 0
    ELSE IF pairs[i].name = p THEN i
    ELSE KeyIndex(pairs, p, i + 1)

\* accumulator[prop] = accumulator[prop] ? accumulator[prop].concat(obj) : [obj]
GroupAdd(groups, obj) ==
    LET prop == obj.v[1].name
        at == KeyIndex(groups, prop, 1)
    IN  IF at = 0
        THEN Append(groups, [name |-> prop, val |-> <<obj>>])
        ELSE [groups EXCEPT ![at].val = Append(@, obj)]

RECURSIVE GroupReduce(_, _, _)
GroupReduce(groups, objects, i) ==
    IF i > Len(objects) THEN groups
    ELSE GroupReduce(GroupAdd(groups, objects[i]), objects, i + 1)

groupByProperty(objects) ==
    LET groupedObj == GroupReduce(<<>>, objects, 1)
    IN  [g \in 1..Len(groupedObj) |-> groupedObj[g].val]

\* combinedObj[prop] = value
SetProp(pairs, prop, value) ==
    LET at == KeyIndex(pairs, prop, 1)
    IN  IF at = 0
        THEN Append(pairs, [name |-> prop, val |-> value])
        ELSE [pairs EXCEPT ![at].val = value]

RECURSIVE CopyProps(_, _, _)
CopyProps(pairs, from, i) ==
    IF i > Len(from) THEN pairs
    ELSE CopyProps(SetProp(pairs, from[i].name, from[i].val), from, i + 1)

RECURSIVE CombinePropsInner(_, _, _)
CombinePropsInner(obj1, objArr2, j) ==
    IF j > Len(objArr2) THEN <<>>
    ELSE <<Obj(CopyProps(CopyProps(<<>>, obj1.v, 1), objArr2[j].v, 1))>>
            \o CombinePropsInner(obj1, objArr2, j + 1)

RECURSIVE CombinePropsOuter(_, _, _)
CombinePropsOuter(objArr1, objArr2, i) ==
    IF i > Len(objArr1) THEN <<>>
    ELSE CombinePropsInner(objArr1[i], objArr2, 1) \o CombinePropsOuter(objArr1, objArr2, i + 1)

\* mutant: the two groups are appended instead of combined
combinePropertyObjects_Concat(objArr1, objArr2) == objArr1 \o objArr2

combinePropertyObjects(objArr1, objArr2) ==
    IF Len(objArr1) = 0 THEN objArr2
    ELSE IF Len(objArr2) = 0 THEN objArr1
    ELSE CombinePropsOuter(objArr1, objArr2, 1)

\* ------------------------------------------------------------------------
\* RuleConfigSet
\* ------------------------------------------------------------------------
addEnums(configs, enums) == configs \o combineArrays(configs, enums)

\* objectConfigSet.add(property, values)
RECURSIVE ObjectConfigSetAdd(_, _, _, _)
ObjectConfigSetAdd(objectConfigs, property, values, idx) ==
    IF idx > Len(values) THEN objectConfigs
    ELSE ObjectConfigSetAdd(
            Append(objectConfigs, Obj(<<[name |-> property, val |-> values[idx]]>>)),
            property, values, idx + 1)

\* body of the forEach over Object.keys(obj.properties)
AddProperty(objectConfigs, prop) ==
    LET afterEnum == IF prop.hasEnum
                     THEN ObjectConfigSetAdd(objectConfigs, prop.name, prop.enum, 1)
                     ELSE objectConfigs
    IN  IF prop.type = "boolean"
        THEN ObjectConfigSetAdd(afterEnum, prop.name, <<Bool(TRUE), Bool(FALSE)>>, 1)
        ELSE afterEnum

RECURSIVE AddProperties(_, _, _)
AddProperties(objectConfigs, properties, i) ==
    IF i > Len(properties) THEN objectConfigs
    ELSE AddProperties(AddProperty(objectConfigs, properties[i]), properties, i + 1)

RECURSIVE CombineReduce(_, _, _)
CombineReduce(accumulator, groups, i) ==
    IF i > Len(groups) THEN accumulator
    ELSE CombineReduce(combinePropertyObjects(accumulator, groups[i]), groups, i + 1)

\* objectConfigSet.combine()
ObjectConfigSetCombine(objectConfigs) ==
    CombineReduce(<<>>, groupByProperty(objectConfigs), 1)

\* the full-object option values addObject derives from an object descriptor
ObjectConfigs(obj) == ObjectConfigSetCombine(AddProperties(<<>>, obj.properties, 1))

\* an array is truthy even when empty, so the `if (objectConfigs)` always passes
addObject(configs, obj) == configs \o combineArrays(configs, ObjectConfigs(obj))

\* config.unshift(severity) mutates the candidate in place.  A candidate that
\* explodeArray wrapped is referenced from its wrapper, so the wrapper shows
\* the prefixed candidate: every array nested in a candidate is a reference
\* to another candidate of the same list.
RECURSIVE UnshiftSeverity(_, _)
UnshiftSeverity(config, severity) ==
    IF IsArr(config)
    THEN Arr(<<Num(severity)>> \o
             [i \in 1..Len(config.v) |-> UnshiftSeverity(config.v[i], severity)])
    ELSE config

\* variant: the severity-only candidate is pushed at the end of the list
addErrorSeverity_Push(configs, severity) ==
    LET sev == IF severity = 0 THEN DefaultSeverity ELSE severity
    IN  [i \in 1..Len(configs) |-> UnshiftSeverity(configs[i], sev)] \o <<Num(sev)>>

\* severity = 0 stands for a missing (falsy) argument
addErrorSeverity(configs, severity) ==
    LET sev == IF severity = 0 THEN DefaultSeverity ELSE severity
    IN  <<Num(sev)>> \o [i \in 1..Len(configs) |-> UnshiftSeverity(configs[i], sev)]

\* for (var opt of schema) { if (opt.enum) ..; if (opt.type === "object") ..; if (opt.oneOf) .. }
ApplyOpt(configs, opt) ==
    LET afterEnum == IF opt.hasEnum THEN addEnums(configs, opt.enum) ELSE configs
    IN  IF opt.type = "object" THEN addObject(afterEnum, opt) ELSE afterEnum

RECURSIVE ApplyOpts(_, _, _)
ApplyOpts(configs, items, i) ==
    IF i > Len(items) THEN configs
    ELSE ApplyOpts(ApplyOpt(configs, items[i]), items, i + 1)

generateConfigsFromSchema(sch) ==
    addErrorSeverity(IF sch.isArray THEN ApplyOpts(<<>>, sch.items, 1) ELSE <<>>, 0)

\* ------------------------------------------------------------------------
\* Registry
\* ------------------------------------------------------------------------
\* mutant: an object option counts once per field
RECURSIVE FieldCount(_, _)
FieldCount(elems, i) ==
    IF i > Len(elems) THEN 0
    ELSE (IF elems[i].k = "obj" THEN Len(elems[i].v) ELSE 1) + FieldCount(elems, i + 1)

Specificity_CountFields(config) ==
    IF IsArr(config) /\ Len(config.v) # 0 THEN FieldCount(config.v, 1) ELSE 1

\* config.length || 1: a bare number has no length, an empty array has length 0
Specificity(config) ==
    IF IsArr(config) /\ Len(config.v) # 0 THEN Len(config.v) ELSE 1

RegistryItem(config) ==
    [config |-> config, specificity |-> Specificity(config), errorCount |-> 0]

Registry(rulesConfig) ==
    [ruleId \in DOMAIN rulesConfig |->
        [i \in 1..Len(rulesConfig[ruleId]) |-> RegistryItem(rulesConfig[ruleId][i])]]

NoRules == [ruleId \in {} |-> <<>>]

ruleBlacklist == {"lines-around-comment"}

\* ruleList maps every rule id of the catalog to its schema
createConfigsForCoreRules(ruleList) ==
    [id \in DOMAIN ruleList \ ruleBlacklist |-> generateConfigsFromSchema(ruleList[id])]

ErrorFree(items) == SelectSeq(items, LAMBDA registryItem : registryItem.errorCount = 0)

\* mutant: a rule left without candidates is not deleted
stripFailingConfigs_KeepEmpty(rs) == [ruleId \in DOMAIN rs |-> ErrorFree(rs[ruleId])]

stripFailingConfigs(rs) ==
    [ruleId \in {id \in DOMAIN rs : Len(ErrorFree(rs[id])) > 0} |-> ErrorFree(rs[ruleId])]

\* variant: every rule is mapped to the first candidate of its list
getRulesWithOneConfig_FirstConfig(rs) ==
    [ruleId \in DOMAIN rs |-> rs[ruleId][1].config]

getRulesWithOneConfig(rs) ==
    [ruleId \in {id \in DOMAIN rs : Len(rs[id]) = 1} |-> rs[ruleId][1].config]

SpecConfigs(items, specificity) ==
    SelectSeq(items, LAMBDA registryItem : registryItem.specificity = specificity)

\* mutant: the first candidate of the specificity wins a tie
getRulesWithSpecificity_FirstMatch(rs, specificity) ==
    [ruleId \in {id \in DOMAIN rs : Len(SpecConfigs(rs[id], specificity)) >= 1} |->
        SpecConfigs(rs[ruleId], specificity)[1].config]

getRulesWithSpecificity(rs, specificity) ==
    [ruleId \in {id \in DOMAIN rs : Len(SpecConfigs(rs[id], specificity)) = 1} |->
        SpecConfigs(rs[ruleId], specificity)[1].config]

\* assign(target, source): the keys of source override those of target
assign(target, source) ==
    [key \in DOMAIN target \cup DOMAIN source |->
        IF key \in DOMAIN source THEN source[key] ELSE target[key]]

\* ------------------------------------------------------------------------
\* buildRuleSets
\* ------------------------------------------------------------------------
\* mutant: the cap on the number of candidates is not tested
CanAddRule_NoCap(rs, rule, idx) == idx < Len(rs[rule])

\* variant: only the first candidate of a rule is put in a batch
CanAddRule_FirstOnly(rs, rule, idx) ==
    idx = 0 /\ Len(rs[rule]) <= MAX_CONFIG_COMBINATIONS

\* the test of addRuleToRuleSet; idx counts from 0
CanAddRule(rs, rule, idx) ==
    idx < Len(rs[rule]) /\ Len(rs[rule]) <= MAX_CONFIG_COMBINATIONS

\* ruleIds.forEach(addRuleToRuleSet): ruleSets[idx] comes to exist only when a
\* rule passes the test
AddRulesToRuleSets(sets, rs, idx) ==
    LET added == {rule \in DOMAIN rs : CanAddRule(rs, rule, idx)}
    IN  IF added = {} THEN sets
        ELSE Append(sets, [rule \in added |-> rs[rule][idx + 1].config])

\* ------------------------------------------------------------------------
\* lintWithConfigs: attribution of one invocation's results
\* ------------------------------------------------------------------------
\* registry.rules[result.ruleId][ruleSetIdx] exists
HasEntry(rs, ruleId, setIdx) == ruleId \in DOMAIN rs /\ setIdx < Len(rs[ruleId])

\* mutant: every result is counted on the rule's first candidate
RECURSIVE CountResults_FirstEntry(_, _, _, _)
CountResults_FirstEntry(rs, lintResults, setIdx, i) ==
    IF i > Len(lintResults) THEN rs
    ELSE IF ~HasEntry(rs, lintResults[i].ruleId, setIdx) THEN rs
    ELSE CountResults_FirstEntry(
            [rs EXCEPT ![lintResults[i].ruleId][1].errorCount = @ + 1],
            lintResults, setIdx, i + 1)

\* lintResults.forEach(...): the first result without a registry entry raises
\* a TypeError, which ends the forEach; the increments made before it stay
RECURSIVE CountResults(_, _, _, _)
CountResults(rs, lintResults, setIdx, i) ==
    IF i > Len(lintResults) THEN rs
    ELSE IF ~HasEntry(rs, lintResults[i].ruleId, setIdx) THEN rs
    ELSE CountResults(
            [rs EXCEPT ![lintResults[i].ruleId][setIdx + 1].errorCount = @ + 1],
            lintResults, setIdx, i + 1)

\* the try block: eslint.verify either throws or returns its results
TryLint(rs, outcome, setIdx) ==
    IF outcome.threw THEN rs ELSE CountResults(rs, outcome.results, setIdx, 1)

\* the catch block was entered
Caught(rs, outcome, setIdx) ==
    \/ outcome.threw
    \/ \E i \in 1..Len(outcome.results) : ~HasEntry(rs, outcome.results[i].ruleId, setIdx)

\* ------------------------------------------------------------------------
\* The linter (eslint.verify), an external collaborator
\* ------------------------------------------------------------------------
Throws == [threw |-> TRUE, results |-> <<>>]
Returns(ruleIds) == [threw |-> FALSE, results |-> [i \in 1..Len(ruleIds) |-> [ruleId |-> ruleIds[i]]]]

ResultLists(ids) == UNION {[1..n -> ids] : n \in 0..MaxDiags}

\* verify(content, config) reports only rules of config.rules, or fails
VerifyOutcomes(ruleSet) == {Throws} \cup {Returns(l) : l \in ResultLists(DOMAIN ruleSet)}

\* a linter that may report any rule of the catalog (a rule enabled by a
\* comment of the linted file is reported although config.rules lacks it)
AnyOutcomes(ruleList) == {Throws} \cup {Returns(l) : l \in ResultLists(DOMAIN ruleList)}

\* ------------------------------------------------------------------------
\* Option schemas the rule catalog can supply
\* ------------------------------------------------------------------------
EnumPool == <<Str("always"), Str("never"), Str("both"), Str("neither")>>

EnumValues(n) == SubSeq(EnumPool, 1, n)

EnumOpt(n) ==
    [hasEnum |-> TRUE, enum |-> EnumValues(n), type |-> "none",
     properties |-> <<>>, oneOf |-> FALSE]
ObjectOpt(props) ==
    [hasEnum |-> FALSE, enum |-> <<>>, type |-> "object",
     properties |-> props, oneOf |-> FALSE]
OneOfOpt ==
    [hasEnum |-> FALSE, enum |-> <<>>, type |-> "none",
     properties |-> <<>>, oneOf |-> TRUE]

EnumProp(name, n) == [name |-> name, hasEnum |-> TRUE, enum |-> EnumValues(n), type |-> "none"]
BooleanProp(name) == [name |-> name, hasEnum |-> FALSE, enum |-> <<>>, type |-> "boolean"]
IntegerProp(name) == [name |-> name, hasEnum |-> FALSE, enum |-> <<>>, type |-> "integer"]

\* object descriptors: no property; a property that is neither an enum nor a
\* boolean; one boolean; two booleans; an enum, an integer and a boolean
ObjectOpts ==
    {ObjectOpt(<<>>),
     ObjectOpt(<<IntegerProp("before")>>),
     ObjectOpt(<<BooleanProp("before")>>),
     ObjectOpt(<<BooleanProp("before"), BooleanProp("after")>>),
     ObjectOpt(<<EnumProp("before", 3), IntegerProp("after"), BooleanProp("inner")>>)}

Opts == {EnumOpt(n) : n \in 0..MaxEnum} \cup ObjectOpts \cup {OneOfOpt}

NoSchema == [isArray |-> FALSE, items |-> <<>>]
ArraySchema(items) == [isArray |-> TRUE, items |-> items]

Schemas ==
    {NoSchema} \cup UNION {{ArraySchema(items) : items \in [1..n -> Opts]} : n \in 0..MaxOpts}

\* rule catalogs (loadRules() and rules.get(id).schema) of the lint run: a rule
\* with 3 candidates, one with 1, one with 17, and the blacklisted rule
ManyBooleans ==
    ObjectOpt(<<BooleanProp("before"), BooleanProp("after"),
                BooleanProp("inner"), BooleanProp("outer")>>)

Catalogs ==
    {[id \in {"semi", "no-alert", "key-spacing", "lines-around-comment"} |->
        CASE id = "semi" -> ArraySchema(<<EnumOpt(2)>>)
          [] id = "no-alert" -> NoSchema
          [] id = "key-spacing" -> ArraySchema(<<ManyBooleans>>)
          [] OTHER -> ArraySchema(<<EnumOpt(1)>>)],
     [id \in {"semi", "lines-around-comment"} |-> ArraySchema(<<EnumOpt(1)>>)]}

\* the catalog of the runs whose linter may report any rule
AnyCatalogs ==
    {[id \in {"semi", "no-alert", "lines-around-comment"} |->
        IF id = "no-alert" THEN NoSchema ELSE ArraySchema(<<EnumOpt(1)>>)]}

\* catalogs for buildRuleSets: candidate lists of 1, 2, 3, 16 and 17 entries
PlanSchemas ==
    {NoSchema,
     ArraySchema(<<EnumOpt(1)>>),
     ArraySchema(<<EnumOpt(2)>>),
     ArraySchema(<<EnumOpt(3), EnumOpt(4)>>),
     ArraySchema(<<ManyBooleans>>)}

PlanCatalogs == {NoRules} \cup [{"semi", "quotes", "indent"} -> PlanSchemas]

\* catalogs for the selection: candidates of specificity 1, 2 and 3
SelectSchemas ==
    {NoSchema,
     ArraySchema(<<EnumOpt(2)>>),
     ArraySchema(<<EnumOpt(1), ObjectOpt(<<BooleanProp("before")>>)>>),
     ArraySchema(<<EnumOpt(2), EnumOpt(1)>>)}

SelectCatalogs ==
    {[id \in {"semi", "no-alert"} |-> IF id = "semi" THEN sch ELSE NoSchema] :
        sch \in SelectSchemas}

FileNames == <<"a.js", "b.js", "c.js">>

\* ------------------------------------------------------------------------
\* State
\* ------------------------------------------------------------------------
VARIABLES
    schema,         \* the option schema handed to generateConfigsFromSchema
    optIdx,         \* position of schema.forEach
    gpc,            \* position inside generateConfigsFromSchema
    ruleConfigs,    \* configSet.ruleConfigs
    rules,          \* registry.rules
    catalog,        \* the rule catalog: rule id -> schema
    sourceCodes,    \* [name, val] pairs: file name -> its content, "null" once released
    filenames,      \* Object.keys(sourceCodes)
    ruleSets,       \* the batches buildRuleSets has built
    idx,            \* idx of buildRuleSets
    fileIdx,        \* position of filenames.forEach
    ruleSetIdx,     \* ruleSetIdx of lintWithConfigs
    pc,             \* position inside processAnswers / lintWithConfigs
    verifyLog,      \* the calls made to eslint.verify, in order
    reported,       \* <<ruleId, setIdx>> -> number of results verify returned
    caught,         \* some invocation ended in the catch block
    singleConfigs,
    specTwoConfigs,
    specThreeConfigs,
    defaultConfigs,
    configRules,    \* config.rules of processAnswers
    config,         \* the config object handed to writeFile
    format,         \* the file format handed to writeFile
    extname,        \* extname of writeFile
    wpc,            \* position inside writeFile and its exec callbacks
    execs,          \* the commands handed to exec, in order
    callbackCalls,  \* the calls of writeFile's callback: "error" or "none" each
    failedSteps     \* the steps (file write, installs) that failed, in order

expandVars == <<schema, optIdx, gpc, ruleConfigs>>
lintVars == <<catalog, sourceCodes, filenames, ruleSets, idx, fileIdx, ruleSetIdx, pc>>
logVars == <<verifyLog, reported, caught>>
selectVars == <<singleConfigs, specTwoConfigs, specThreeConfigs, defaultConfigs, configRules>>

writeVars == <<config, format, extname, wpc, execs, callbackCalls, failedSteps>>

vars == <<expandVars, rules, lintVars, logVars, selectVars, writeVars>>

NoConfig == [hasExtends |-> FALSE, extends |-> "", hasPlugins |-> FALSE, plugins |-> <<>>,
             es6 |-> FALSE, jsx |-> FALSE]

WriteIdle ==
    /\ config = NoConfig
    /\ format = "JavaScript"
    /\ extname = ".js"
    /\ wpc = "idle"
    /\ execs = <<>>
    /\ callbackCalls = <<>>
    /\ failedSteps = <<>>

ExpandIdle ==
    /\ schema = NoSchema
    /\ optIdx = 1
    /\ gpc = "idle"
    /\ ruleConfigs = <<>>

LogEmpty ==
    /\ verifyLog = <<>>
    /\ reported = NoRules
    /\ caught = FALSE

SelectEmpty ==
    /\ singleConfigs = NoRules
    /\ specTwoConfigs = NoRules
    /\ specThreeConfigs = NoRules
    /\ defaultConfigs = NoRules
    /\ configRules = NoRules

LintIdle ==
    /\ catalog = NoRules
    /\ sourceCodes = <<>>
    /\ filenames = <<>>
    /\ ruleSets = <<>>
    /\ idx = 0
    /\ fileIdx = 1
    /\ ruleSetIdx = 0
    /\ pc = "idle"

\* ------------------------------------------------------------------------
\* generateConfigsFromSchema, one step per test of the forEach body
\* ------------------------------------------------------------------------
InitExpand ==
    /\ schema \in Schemas
    /\ optIdx = 1
    /\ gpc = IF schema.isArray /\ Len(schema.items) > 0 THEN "enum" ELSE "severity"
    /\ ruleConfigs = <<>>
    /\ rules = NoRules
    /\ LintIdle
    /\ LogEmpty
    /\ SelectEmpty
    /\ WriteIdle

Opt == schema.items[optIdx]

OptEnum ==
    /\ gpc = "enum"
    /\ ruleConfigs' = IF Opt.hasEnum THEN addEnums(ruleConfigs, Opt.enum) ELSE ruleConfigs
    /\ gpc' = "object"
    /\ UNCHANGED <<schema, optIdx, rules, lintVars, logVars, selectVars, writeVars>>

OptObject ==
    /\ gpc = "object"
    /\ ruleConfigs' = IF Opt.type = "object" THEN addObject(ruleConfigs, Opt) ELSE ruleConfigs
    /\ gpc' = "oneOf"
    /\ UNCHANGED <<schema, optIdx, rules, lintVars, logVars, selectVars, writeVars>>

OptOneOf ==
    /\ gpc = "oneOf"
    /\ optIdx' = optIdx + 1
    /\ gpc' = IF optIdx < Len(schema.items) THEN "enum" ELSE "severity"
    /\ UNCHANGED <<schema, ruleConfigs, rules, lintVars, logVars, selectVars, writeVars>>

AddErrorSeverity ==
    /\ gpc = "severity"
    /\ ruleConfigs' = addErrorSeverity(ruleConfigs, 0)
    /\ gpc' = "generated"
    /\ UNCHANGED <<schema, optIdx, rules, lintVars, logVars, selectVars, writeVars>>

NewRegistry ==
    /\ gpc = "generated"
    /\ rules' = Registry([ruleId \in {"r1"} |-> ruleConfigs])
    /\ gpc' = "done"
    /\ UNCHANGED <<schema, optIdx, ruleConfigs, lintVars, logVars, selectVars, writeVars>>

NextExpand ==
    \/ OptEnum
    \/ OptObject
    \/ OptOneOf
    \/ AddErrorSeverity
    \/ NewRegistry

SpecExpand == InitExpand /\ [][NextExpand]_vars

\* ------------------------------------------------------------------------
\* processAnswers with source "auto": lintWithConfigs, then the selection
\* ------------------------------------------------------------------------
Corpus(n) == [i \in 1..n |-> [name |-> FileNames[i], val |-> "code"]]

\* new Registry() has run; buildRuleSets is entered
InitLintFrom(catalogs) ==
    /\ ExpandIdle
    /\ catalog \in catalogs
    /\ rules = Registry(createConfigsForCoreRules(catalog))
    /\ sourceCodes \in {Corpus(n) : n \in 0..MaxFiles}
    /\ filenames = <<>>
    /\ ruleSets = <<>>
    /\ idx = 0
    /\ fileIdx = 1
    /\ ruleSetIdx = 0
    /\ pc = "build"
    /\ LogEmpty
    /\ SelectEmpty
    /\ WriteIdle

InitLint == InitLintFrom(Catalogs)

\* one pass of `while (ruleSets.length === idx)`
BuildRuleSetsIter ==
    /\ pc = "build"
    /\ Len(ruleSets) = idx
    /\ ruleSets' = AddRulesToRuleSets(ruleSets, rules, idx)
    /\ idx' = idx + 1
    /\ UNCHANGED <<expandVars, rules, catalog, sourceCodes, filenames, fileIdx, ruleSetIdx, pc,
                   logVars, selectVars, writeVars>>

\* the while loop ends, buildRuleSets returns, filenames = Object.keys(sourceCodes)
BuildRuleSetsReturn ==
    /\ pc = "build"
    /\ Len(ruleSets) # idx
    /\ filenames' = [i \in 1..Len(sourceCodes) |-> sourceCodes[i].name]
    /\ pc' = "files"
    /\ UNCHANGED <<expandVars, rules, catalog, sourceCodes, ruleSets, idx, fileIdx, ruleSetIdx,
                   logVars, selectVars, writeVars>>

\* variant: ruleSetIdx is not reset when the next file is entered
BeginFile_KeepIdx ==
    /\ pc = "files"
    /\ fileIdx <= Len(filenames)
    /\ pc' = "sets"
    /\ UNCHANGED <<expandVars, rules, catalog, sourceCodes, filenames, ruleSets, idx, fileIdx,
                   ruleSetIdx, logVars, selectVars, writeVars>>

\* filenames.forEach callback entered: ruleSetIdx = 0
BeginFile ==
    /\ pc = "files"
    /\ fileIdx <= Len(filenames)
    /\ ruleSetIdx' = 0
    /\ pc' = "sets"
    /\ UNCHANGED <<expandVars, rules, catalog, sourceCodes, filenames, ruleSets, idx, fileIdx,
                   logVars, selectVars, writeVars>>

Tally(counts, key) ==
    IF key \in DOMAIN counts THEN [counts EXCEPT ![key] = @ + 1] ELSE counts @@ (key :> 1)

RECURSIVE TallyResults(_, _, _, _)
TallyResults(counts, lintResults, setIdx, i) ==
    IF i > Len(lintResults) THEN counts
    ELSE TallyResults(Tally(counts, <<lintResults[i].ruleId, setIdx>>), lintResults, setIdx, i + 1)

\* ruleSets.forEach callback: one eslint.verify call and the count of its results
LintRuleSetWith(outcome) ==
    /\ pc = "sets"
    /\ ruleSetIdx < Len(ruleSets)
    /\ rules' = TryLint(rules, outcome, ruleSetIdx)
    /\ ruleSetIdx' = ruleSetIdx + 1
    /\ verifyLog' = Append(verifyLog, [filename |-> filenames[fileIdx],
                                       content |-> sourceCodes[fileIdx].val,
                                       setIdx |-> ruleSetIdx])
    /\ reported' = TallyResults(reported, outcome.results, ruleSetIdx, 1)
    /\ caught' = (caught \/ Caught(rules, outcome, ruleSetIdx))
    /\ UNCHANGED <<expandVars, catalog, sourceCodes, filenames, ruleSets, idx, fileIdx, pc,
                   selectVars, writeVars>>

LintRuleSet ==
    /\ pc = "sets"
    /\ ruleSetIdx < Len(ruleSets)
    /\ \E outcome \in VerifyOutcomes(ruleSets[ruleSetIdx + 1]) : LintRuleSetWith(outcome)

LintRuleSetAny ==
    /\ pc = "sets"
    /\ \E outcome \in AnyOutcomes(catalog) : LintRuleSetWith(outcome)

\* every rule set has been applied to the file: sourceCodes[filename] = null
EndFile ==
    /\ pc = "sets"
    /\ ruleSetIdx = Len(ruleSets)
    /\ sourceCodes' = [sourceCodes EXCEPT ![fileIdx].val = "null"]
    /\ fileIdx' = fileIdx + 1
    /\ pc' = "files"
    /\ UNCHANGED <<expandVars, rules, catalog, filenames, ruleSets, idx, ruleSetIdx,
                   logVars, selectVars, writeVars>>

\* lintWithConfigs returns the registry
LintReturn ==
    /\ pc = "files"
    /\ fileIdx > Len(filenames)
    /\ pc' = "linted"
    /\ UNCHANGED <<expandVars, rules, catalog, sourceCodes, filenames, ruleSets, idx, fileIdx,
                   ruleSetIdx, logVars, selectVars, writeVars>>

StripFailingConfigs ==
    /\ pc = "linted"
    /\ rules' = stripFailingConfigs(rules)
    /\ pc' = "stripped"
    /\ UNCHANGED <<expandVars, catalog, sourceCodes, filenames, ruleSets, idx, fileIdx,
                   ruleSetIdx, logVars, selectVars, writeVars>>

GetSingleConfigs ==
    /\ pc = "stripped"
    /\ singleConfigs' = getRulesWithOneConfig(rules)
    /\ pc' = "single"
    /\ UNCHANGED <<expandVars, rules, catalog, sourceCodes, filenames, ruleSets, idx, fileIdx,
                   ruleSetIdx, logVars, specTwoConfigs, specThreeConfigs, defaultConfigs,
                   configRules, writeVars>>

GetSpecTwoConfigs ==
    /\ pc = "single"
    /\ specTwoConfigs' = getRulesWithSpecificity(rules, 2)
    /\ pc' = "two"
    /\ UNCHANGED <<expandVars, rules, catalog, sourceCodes, filenames, ruleSets, idx, fileIdx,
                   ruleSetIdx, logVars, singleConfigs, specThreeConfigs, defaultConfigs,
                   configRules, writeVars>>

GetSpecThreeConfigs ==
    /\ pc = "two"
    /\ specThreeConfigs' = getRulesWithSpecificity(rules, 3)
    /\ pc' = "three"
    /\ UNCHANGED <<expandVars, rules, catalog, sourceCodes, filenames, ruleSets, idx, fileIdx,
                   ruleSetIdx, logVars, singleConfigs, specTwoConfigs, defaultConfigs,
                   configRules, writeVars>>

GetDefaultConfigs ==
    /\ pc = "three"
    /\ defaultConfigs' = getRulesWithSpecificity(rules, 1)
    /\ pc' = "default"
    /\ UNCHANGED <<expandVars, rules, catalog, sourceCodes, filenames, ruleSets, idx, fileIdx,
                   ruleSetIdx, logVars, singleConfigs, specTwoConfigs, specThreeConfigs,
                   configRules, writeVars>>

\* mutant: the sources are merged in the opposite order
MergeConfigs_DefaultsLast(defaults, three, two, single) ==
    assign(assign(assign(assign(NoRules, single), two), three), defaults)

\* config.rules = assign({}, defaultConfigs, specThreeConfigs, specTwoConfigs, singleConfigs)
MergeConfigs(defaults, three, two, single) ==
    assign(assign(assign(assign(NoRules, defaults), three), two), single)

AssignRules ==
    /\ pc = "default"
    /\ configRules' = MergeConfigs(defaultConfigs, specThreeConfigs, specTwoConfigs, singleConfigs)
    /\ pc' = "done"
    /\ UNCHANGED <<expandVars, rules, catalog, sourceCodes, filenames, ruleSets, idx, fileIdx,
                   ruleSetIdx, logVars, singleConfigs, specTwoConfigs, specThreeConfigs,
                   defaultConfigs, writeVars>>

Select ==
    \/ StripFailingConfigs
    \/ GetSingleConfigs
    \/ GetSpecTwoConfigs
    \/ GetSpecThreeConfigs
    \/ GetDefaultConfigs
    \/ AssignRules

Next ==
    \/ BuildRuleSetsIter
    \/ BuildRuleSetsReturn
    \/ BeginFile
    \/ LintRuleSet
    \/ EndFile
    \/ LintReturn
    \/ StripFailingConfigs
    \/ GetSingleConfigs
    \/ GetSpecTwoConfigs
    \/ GetSpecThreeConfigs
    \/ GetDefaultConfigs
    \/ AssignRules

\* the run with a linter that keeps to its contract
Spec == InitLint /\ [][Next]_vars

NextAnyLinter ==
    \/ BuildRuleSetsIter
    \/ BuildRuleSetsReturn
    \/ BeginFile
    \/ LintRuleSetAny
    \/ EndFile
    \/ LintReturn
    \/ StripFailingConfigs
    \/ GetSingleConfigs
    \/ GetSpecTwoConfigs
    \/ GetSpecThreeConfigs
    \/ GetDefaultConfigs
    \/ AssignRules

\* the run with a linter that may report any rule
SpecAnyLinter == InitLintFrom(AnyCatalogs) /\ [][NextAnyLinter]_vars

\* buildRuleSets alone, over registries of many shapes; the loop is
\* synchronous code, it keeps running until it returns
InitPlan ==
    /\ ExpandIdle
    /\ catalog \in PlanCatalogs
    /\ rules = Registry(createConfigsForCoreRules(catalog))
    /\ sourceCodes = <<>>
    /\ filenames = <<>>
    /\ ruleSets = <<>>
    /\ idx = 0
    /\ fileIdx = 1
    /\ ruleSetIdx = 0
    /\ pc = "build"
    /\ LogEmpty
    /\ SelectEmpty
    /\ WriteIdle

NextPlan ==
    \/ BuildRuleSetsIter
    \/ BuildRuleSetsReturn

SpecPlan == InitPlan /\ [][NextPlan]_vars /\ WF_vars(NextPlan)

\* the selection alone, over registries as lintWithConfigs can return them
CleanRegistry(ruleList) == Registry(createConfigsForCoreRules(ruleList))

WithErrorCounts(items, counts) ==
    [i \in 1..Len(items) |-> [items[i] EXCEPT !.errorCount = counts[i]]]

InitSelect ==
    /\ ExpandIdle
    /\ catalog \in SelectCatalogs
    /\ \E semi \in [1..Len(CleanRegistry(catalog)["semi"]) -> 0..MaxErrors],
          noAlert \in [1..Len(CleanRegistry(catalog)["no-alert"]) -> 0..MaxErrors] :
            rules = [id \in DOMAIN CleanRegistry(catalog) |->
                        WithErrorCounts(CleanRegistry(catalog)[id],
                                        IF id = "semi" THEN semi ELSE noAlert)]
    /\ sourceCodes = <<>>
    /\ filenames = <<>>
    /\ ruleSets = <<>>
    /\ idx = 0
    /\ fileIdx = 1
    /\ ruleSetIdx = 0
    /\ pc = "linted"
    /\ LogEmpty
    /\ SelectEmpty
    /\ WriteIdle

SpecSelect == InitSelect /\ [][Select]_vars

\* ------------------------------------------------------------------------
\* What a descriptor offers, counted from the schema alone
\* ------------------------------------------------------------------------
\* the option values a sub-property offers
PropOptions(prop) ==
    (IF prop.hasEnum THEN {prop.enum[i] : i \in 1..Len(prop.enum)} ELSE {})
        \cup (IF prop.type = "boolean" THEN {Bool(TRUE), Bool(FALSE)} ELSE {})

OfferingProps(obj) == SelectSeq(obj.properties, LAMBDA prop : PropOptions(prop) # {})

RECURSIVE OptionProduct(_, _)
OptionProduct(props, i) ==
    IF i > Len(props) THEN 1
    ELSE Cardinality(PropOptions(props[i])) * OptionProduct(props, i + 1)

\* every object that assigns one offered value to each offering sub-property
FullObjects(obj) ==
    LET props == OfferingProps(obj)
        values == UNION {PropOptions(props[i]) : i \in 1..Len(props)}
    IN  {Obj([i \in 1..Len(props) |-> [name |-> props[i].name, val |-> f[i]]]) :
            f \in {g \in [1..Len(props) -> values] :
                      \A i \in 1..Len(props) : g[i] \in PropOptions(props[i])}}

IsEnumOpt(opt) == opt.hasEnum /\ opt.type # "object" /\ Len(opt.enum) > 0
IsObjectOpt(opt) == ~opt.hasEnum /\ opt.type = "object" /\ Len(OfferingProps(opt)) > 0

\* number of option values a descriptor offers to the grow rule
Offered(opt) ==
    IF IsEnumOpt(opt) THEN Len(opt.enum)
    ELSE IF IsObjectOpt(opt) THEN OptionProduct(OfferingProps(opt), 1)
    ELSE 0

Specificities == [i \in 1..Len(rules["r1"]) |-> rules["r1"][i].specificity]

\* the stepwise run and the pure operator compute the same candidate list
StepwiseAgrees ==
    gpc \in {"generated", "done"} => ruleConfigs = generateConfigsFromSchema(schema)

\* ------------------------------------------------------------------------
\* C1
\* ------------------------------------------------------------------------
RegisteredIds == DOMAIN catalog \ ruleBlacklist

Candidates(ruleId) == generateConfigsFromSchema(catalog[ruleId])

\* the rules whose candidate list has more than 16 entries
OverCapRules == {id \in RegisteredIds : Len(Candidates(id)) > MAX_CONFIG_COMBINATIONS}

Linting == pc \in {"build", "files", "sets", "linted"}

\* C1: a rule whose candidate list has more than 16 entries is in no batch,
\* none of its errorCounts is incremented by lintWithConfigs, and it is absent
\* from the final rule-to-configuration mapping.
C1_NeverTestedNeverSelected ==
    \A id \in OverCapRules :
        /\ \A i \in 1..Len(ruleSets) : id \notin DOMAIN ruleSets[i]
        /\ Linting => \A i \in 1..Len(rules[id]) : rules[id][i].errorCount = 0
        /\ pc = "done" => id \notin DOMAIN configRules

\* ------------------------------------------------------------------------
\* C2
\* ------------------------------------------------------------------------
EveryPairEvaluated ==
    /\ Len(verifyLog) = Len(filenames) * Len(ruleSets)
    /\ \A f \in 1..Len(filenames) : \A i \in 1..Len(ruleSets) :
          Cardinality({n \in 1..Len(verifyLog) :
                          /\ verifyLog[n].filename = filenames[f]
                          /\ verifyLog[n].setIdx = i - 1}) = 1

\* C2: whenever the processing of one (file, batch) pair fails (the linter
\* call raises, or a returned diagnostic has no registry entry for its ruleId
\* or batch index), every errorCount has the same value after the pair as
\* before it, and every remaining pair is still evaluated.
C2_FailOpen ==
    /\ [][\A outcome \in AnyOutcomes(catalog) :
            (LintRuleSetWith(outcome) /\ Caught(rules, outcome, ruleSetIdx)) => rules' = rules]_vars
    /\ [](pc = "linted" => EveryPairEvaluated)

\* ------------------------------------------------------------------------
\* C3
\* ------------------------------------------------------------------------
Reported(ruleId, setIdx) ==
    IF <<ruleId, setIdx>> \in DOMAIN reported THEN reported[<<ruleId, setIdx>>] ELSE 0

InBatch(ruleId, i) == i <= Len(ruleSets) /\ ruleId \in DOMAIN ruleSets[i]

\* C3: when no invocation fails, lintWithConfigs invokes the linter exactly
\* once for every (file, batch) pair, and on return every entry's errorCount
\* equals the number of diagnostics of its rule returned by the invocations
\* that used its batch, summed over all files; the entries of candidates that
\* were in no batch stay at 0.
C3_ExactCounts ==
    (pc = "linted" /\ ~caught) =>
        /\ EveryPairEvaluated
        /\ \A id \in DOMAIN rules : \A i \in 1..Len(rules[id]) :
              /\ rules[id][i].errorCount = Reported(id, i - 1)
              /\ ~InBatch(id, i) => rules[id][i].errorCount = 0

\* two files, the second batch reported "semi" three times in all
C3_Witness ==
    /\ pc = "linted"
    /\ ~caught
    /\ Len(filenames) = 2
    /\ "key-spacing" \in DOMAIN rules
    /\ rules["semi"][2].errorCount = 3
    /\ rules["semi"][1].errorCount = 1
    /\ rules["no-alert"][1].errorCount = 2

\* ------------------------------------------------------------------------
\* C4
\* ------------------------------------------------------------------------
EligibleRules == {id \in DOMAIN rules : Len(rules[id]) <= 16}

Longest ==
    IF EligibleRules = {} THEN 0
    ELSE CHOOSE n \in {Len(rules[id]) : id \in EligibleRules} :
            \A id \in EligibleRules : Len(rules[id]) <= n

\* C4: buildRuleSets terminates for every registry and returns exactly L
\* batches, L being the length of the longest candidate list among the rules
\* with at most 16 candidates (0 when there is none, so L <= 16); batch i holds
\* exactly the rules with at most 16 and more than i candidates, each mapped
\* to its i-th candidate's configuration.
C4_Batches ==
    /\ <>(pc = "files")
    /\ [](pc = "files" =>
            /\ Len(ruleSets) = Longest
            /\ Longest <= 16
            /\ \A i \in 1..Len(ruleSets) :
                  /\ DOMAIN ruleSets[i] = {id \in EligibleRules : Len(rules[id]) > i - 1}
                  /\ \A id \in DOMAIN ruleSets[i] : ruleSets[i][id] = rules[id][i].config)

\* candidate lists of 3, 1 and 2 entries gave three batches
C4_Witness ==
    /\ pc = "files"
    /\ DOMAIN rules = {"semi", "quotes", "indent"}
    /\ Len(rules["semi"]) = 3 /\ Len(rules["quotes"]) = 1 /\ Len(rules["indent"]) = 2
    /\ Len(ruleSets) = 3
    /\ DOMAIN ruleSets[1] = {"semi", "quotes", "indent"}
    /\ DOMAIN ruleSets[2] = {"semi", "indent"}
    /\ DOMAIN ruleSets[3] = {"semi"}

\* ------------------------------------------------------------------------
\* C5
\* ------------------------------------------------------------------------
Kept(items) == {i \in 1..Len(items) : items[i].errorCount = 0}

\* position among the kept candidates of kept candidate i
Rank(items, i) == Cardinality({j \in Kept(items) : j <= i})

\* C5: stripFailingConfigs leaves, for every rule, exactly the candidates whose
\* errorCount is 0, in their original relative order and with unchanged
\* configuration, specificity and errorCount; a rule all of whose candidates
\* have errorCount > 0 is removed, and a rule with an error-free candidate is
\* never removed.
C5_Strip ==
    [][StripFailingConfigs =>
        /\ DOMAIN rules' = {id \in DOMAIN rules : Kept(rules[id]) # {}}
        /\ \A id \in DOMAIN rules' :
              /\ Len(rules'[id]) = Cardinality(Kept(rules[id]))
              /\ \A i \in Kept(rules[id]) : rules'[id][Rank(rules[id], i)] = rules[id][i]]_vars

\* of three candidates the middle one was stripped, and a rule was removed
C5_Witness ==
    /\ pc = "stripped"
    /\ catalog["semi"] = ArraySchema(<<EnumOpt(2)>>)
    /\ "no-alert" \notin DOMAIN rules
    /\ "semi" \in DOMAIN rules
    /\ Len(rules["semi"]) = 2
    /\ rules["semi"][1].config = Num(2)
    /\ rules["semi"][2].config = Arr(<<Num(2), Str("never")>>)

\* ------------------------------------------------------------------------
\* C6
\* ------------------------------------------------------------------------
AtLevel(ruleId, n) == {i \in 1..Len(rules[ruleId]) : rules[ruleId][i].specificity = n}

UniqueAt(ruleId, n) == ruleId \in DOMAIN rules /\ Cardinality(AtLevel(ruleId, n)) = 1

TheOneAt(ruleId, n) == rules[ruleId][CHOOSE i \in AtLevel(ruleId, n) : TRUE].config

QueryExcludesTies(result, n) ==
    \A id \in DOMAIN catalog :
        /\ id \in DOMAIN result <=> UniqueAt(id, n)
        /\ id \in DOMAIN result => result[id] = TheOneAt(id, n)

TiedEverywhere(ruleId) ==
    /\ ruleId \in DOMAIN rules
    /\ Len(rules[ruleId]) > 1
    /\ \A n \in 1..3 : Cardinality(AtLevel(ruleId, n)) # 1

\* C6: getRulesWithSpecificity(n) maps a rule if and only if exactly one of its
\* current candidates has specificity n, and then to that candidate's
\* configuration; getRulesWithOneConfig maps a rule if and only if its list
\* has exactly one candidate; a rule with more than one candidate at every
\* specificity level it has is absent from every query result and from the
\* merged mapping.
C6_NoTieBreak ==
    pc = "done" =>
        /\ QueryExcludesTies(specTwoConfigs, 2)
        /\ QueryExcludesTies(specThreeConfigs, 3)
        /\ QueryExcludesTies(defaultConfigs, 1)
        /\ \A id \in DOMAIN catalog :
              /\ id \in DOMAIN singleConfigs <=> (id \in DOMAIN rules /\ Len(rules[id]) = 1)
              /\ id \in DOMAIN singleConfigs => singleConfigs[id] = rules[id][1].config
              /\ TiedEverywhere(id) =>
                    /\ id \notin DOMAIN singleConfigs \cup DOMAIN specTwoConfigs
                    /\ id \notin DOMAIN specThreeConfigs \cup DOMAIN defaultConfigs
                    /\ id \notin DOMAIN configRules

\* both options survived, the severity-only candidate did not: no selection
C6_Witness ==
    /\ pc = "done"
    /\ "semi" \in DOMAIN rules
    /\ Len(rules["semi"]) = 2
    /\ rules["semi"][1].specificity = 2
    /\ rules["semi"][2].specificity = 2
    /\ "semi" \notin DOMAIN configRules

\* ------------------------------------------------------------------------
\* C7
\* ------------------------------------------------------------------------
\* C7: for every rule the final configuration is its only surviving candidate
\* if exactly one survives; otherwise its unique specificity-2 survivor;
\* otherwise its unique specificity-3 survivor; otherwise its unique
\* specificity-1 survivor; otherwise the rule has no entry in the mapping.
C7_MergePriority ==
    pc = "done" =>
        \A id \in DOMAIN catalog :
            IF id \in DOMAIN rules /\ Len(rules[id]) = 1
                THEN id \in DOMAIN configRules /\ configRules[id] = rules[id][1].config
            ELSE IF UniqueAt(id, 2)
                THEN id \in DOMAIN configRules /\ configRules[id] = TheOneAt(id, 2)
            ELSE IF UniqueAt(id, 3)
                THEN id \in DOMAIN configRules /\ configRules[id] = TheOneAt(id, 3)
            ELSE IF UniqueAt(id, 1)
                THEN id \in DOMAIN configRules /\ configRules[id] = TheOneAt(id, 1)
            ELSE id \notin DOMAIN configRules

\* a unique specificity-2 survivor overrode the severity-only survivor
C7_Witness ==
    /\ pc = "done"
    /\ "semi" \in DOMAIN defaultConfigs
    /\ "semi" \in DOMAIN specTwoConfigs
    /\ "semi" \notin DOMAIN singleConfigs
    /\ specTwoConfigs["semi"] # defaultConfigs["semi"]
    /\ configRules["semi"] = specTwoConfigs["semi"]

\* ------------------------------------------------------------------------
\* C8
\* ------------------------------------------------------------------------
OneDescriptor == schema.isArray /\ Len(schema.items) = 1
TwoDescriptors == schema.isArray /\ Len(schema.items) = 2

\* C8 as stated: the severity-only candidate has specificity 1, severity plus
\* one option value has specificity 2, and severity plus an object option
\* that has two fields has specificity 3.
C8_Original ==
    gpc = "done" =>
        /\ Specificities[1] = 1
        /\ (OneDescriptor /\ IsEnumOpt(schema.items[1])) =>
                \A i \in 2..Len(Specificities) : Specificities[i] = 2
        /\ (OneDescriptor /\ IsObjectOpt(schema.items[1])
              /\ Len(OfferingProps(schema.items[1])) = 2) =>
                \A i \in 2..Len(Specificities) : Specificities[i] = 3

\* C8, amended: the specificity of a registry entry is the element count of
\* its candidate, an object option counting as one element whatever the number
\* of its fields: the severity-only candidate has specificity 1; severity plus
\* one option value, literal or object, has specificity 2; specificity 3 is
\* severity plus two option values (one from each of two descriptors).
C8_Specificity ==
    gpc = "done" =>
        /\ rules["r1"][1].config = Num(DefaultSeverity)
        /\ Specificities[1] = 1
        /\ (OneDescriptor /\ Offered(schema.items[1]) > 0) =>
                /\ Len(Specificities) = 1 + Offered(schema.items[1])
                /\ \A i \in 2..Len(Specificities) : Specificities[i] = 2
        /\ (TwoDescriptors /\ Offered(schema.items[1]) > 0 /\ Offered(schema.items[2]) > 0) =>
                \A i \in 2..Len(Specificities) :
                    Specificities[i] = IF i <= 1 + Offered(schema.items[1]) THEN 2 ELSE 3

\* an object option with two fields got specificity 2
C8_Witness ==
    /\ gpc = "done"
    /\ schema = ArraySchema(<<ObjectOpt(<<BooleanProp("before"), BooleanProp("after")>>)>>)
    /\ Len(rules["r1"]) = 5
    /\ rules["r1"][2].config =
          Arr(<<Num(2), Obj(<<[name |-> "before", val |-> Bool(TRUE)],
                              [name |-> "after", val |-> Bool(TRUE)]>>)>>)
    /\ rules["r1"][2].specificity = 2

\* ------------------------------------------------------------------------
\* C9
\* ------------------------------------------------------------------------
\* the grow rule by position: A, then a ++ [v] in row-major order
GrowExpected(A, V) ==
    IF Len(A) = 0 THEN [j \in 1..Len(V) |-> Arr(<<V[j]>>)]
    ELSE [n \in 1..(Len(A) + Len(A) * Len(V)) |->
            IF n <= Len(A) THEN A[n]
            ELSE Arr(Append(A[((n - Len(A) - 1) \div Len(V)) + 1].v,
                            V[((n - Len(A) - 1) % Len(V)) + 1])) ]

\* C9: processing an enumerated-choice descriptor with values V (at least one
\* value) on accumulator A yields, when A is empty, one one-element candidate
\* per value of V in order, and when A is non-empty, A unchanged followed by
\* a ++ [v] for every a in A and v in V in row-major order; a schema with one
\* enum of n values expands to n+1 candidates with specificities [1,2,...,2],
\* and enums of sizes n1 and n2 expand to 1 + n1 + n1*n2 candidates.
C9_EnumGrow ==
    /\ [][(OptEnum /\ Opt.hasEnum /\ Len(Opt.enum) > 0) =>
            ruleConfigs' = GrowExpected(ruleConfigs, Opt.enum)]_vars
    /\ [](gpc = "done" =>
            /\ (OneDescriptor /\ IsEnumOpt(schema.items[1])) =>
                    Specificities =
                        [i \in 1..(Len(schema.items[1].enum) + 1) |-> IF i = 1 THEN 1 ELSE 2]
            /\ (TwoDescriptors /\ IsEnumOpt(schema.items[1]) /\ IsEnumOpt(schema.items[2])) =>
                    Len(rules["r1"]) =
                        1 + Len(schema.items[1].enum)
                          + Len(schema.items[1].enum) * Len(schema.items[2].enum))

\* a second enum has just been combined with the two candidates of the first
C9_Witness ==
    /\ gpc = "object"
    /\ optIdx = 2
    /\ schema = ArraySchema(<<EnumOpt(2), EnumOpt(2)>>)
    /\ Len(ruleConfigs) = 6
    /\ ruleConfigs[4] = Arr(<<Str("always"), Str("never")>>)
    /\ ruleConfigs[5] = Arr(<<Str("never"), Str("always")>>)

\* ------------------------------------------------------------------------
\* C10
\* ------------------------------------------------------------------------
LastOf(candidate) == candidate.v[Len(candidate.v)]

\* C10: an object descriptor whose enum/boolean sub-properties have k1..kp
\* options (p >= 1, a boolean counting as {true, false}) yields exactly
\* k1*...*kp full-object option values, each assigning one value to every such
\* sub-property and no two equal; as the only descriptor of a schema it
\* expands to 1 + k1*...*kp candidates.
C10_ObjectExpansion ==
    /\ [][(OptObject /\ IsObjectOpt(Opt)) =>
            LET k == OptionProduct(OfferingProps(Opt), 1)
                old == Len(ruleConfigs)
                added == {n \in 1..Len(ruleConfigs') : n > old}
            IN  /\ Len(ruleConfigs') = IF old = 0 THEN k ELSE old + old * k
                /\ \A n \in 1..old : ruleConfigs'[n] = ruleConfigs[n]
                /\ \A n \in added : LastOf(ruleConfigs'[n]) \in FullObjects(Opt)
                /\ Cardinality({LastOf(ruleConfigs'[n]) : n \in added}) = k
                /\ Cardinality({ruleConfigs'[n] : n \in added}) = Cardinality(added)]_vars
    /\ [](gpc = "done" /\ OneDescriptor /\ IsObjectOpt(schema.items[1]) =>
            Len(rules["r1"]) = 1 + OptionProduct(OfferingProps(schema.items[1]), 1))

\* two booleans gave five candidates
C10_Witness ==
    /\ gpc = "done"
    /\ schema = ArraySchema(<<ObjectOpt(<<BooleanProp("before"), BooleanProp("after")>>)>>)
    /\ Len(rules["r1"]) = 5
    /\ Cardinality({rules["r1"][i].config : i \in 2..5}) = 4

\* ------------------------------------------------------------------------
\* C11
\* ------------------------------------------------------------------------
IsOneOfOpt(opt) == opt.oneOf

\* the schema with its one-of descriptors removed
WithoutOneOf(sch) ==
    IF sch.isArray
    THEN ArraySchema(SelectSeq(sch.items, LAMBDA opt : ~IsOneOfOpt(opt)))
    ELSE sch

Generated == gpc \in {"generated", "done"}

\* C11: for every schema the list generateConfigsFromSchema returns is
\* non-empty, its first element is the severity-only candidate and no other
\* candidate has specificity 1, every other candidate starts with the
\* default severity, and the list is the one the schema without its one-of
\* descriptors produces.
C11_SeverityOnlyFirst ==
    Generated =>
        /\ Len(ruleConfigs) >= 1
        /\ ruleConfigs[1] = Num(DefaultSeverity)
        /\ Specificity(ruleConfigs[1]) = 1
        /\ \A i \in 2..Len(ruleConfigs) :
              /\ IsArr(ruleConfigs[i])
              /\ ruleConfigs[i].v[1] = Num(DefaultSeverity)
              /\ Specificity(ruleConfigs[i]) # 1
        /\ ruleConfigs = generateConfigsFromSchema(WithoutOneOf(schema))
        /\ gpc = "done" =>
              /\ Len(rules["r1"]) = Len(ruleConfigs)
              /\ rules["r1"][1].specificity = 1
              /\ \A i \in 2..Len(rules["r1"]) : rules["r1"][i].specificity # 1

\* a schema that mixes a one-of descriptor with an enum descriptor has been
\* expanded into more than the severity-only candidate
C11_Witness ==
    /\ gpc = "done"
    /\ schema.isArray
    /\ \E i, j \in 1..Len(schema.items) :
          /\ IsOneOfOpt(schema.items[i])
          /\ IsEnumOpt(schema.items[j]) /\ Len(schema.items[j].enum) >= 2
    /\ Len(ruleConfigs) = 3

\* ------------------------------------------------------------------------
\* C12
\* ------------------------------------------------------------------------
EmptyCorpus == Len(sourceCodes) = 0

AfterLint == pc \in {"linted", "stripped", "single", "two", "three", "default", "done"}
AfterStrip == pc \in {"stripped", "single", "two", "three", "default", "done"}

\* lintWithConfigs called the linter not once and counted nothing
NothingCounted ==
    /\ verifyLog = <<>>
    /\ ~caught
    /\ pc = "linted" =>
          \A id \in DOMAIN rules : \A i \in 1..Len(rules[id]) : rules[id][i].errorCount = 0

\* stripFailingConfigs removed no candidate and no rule
NothingStripped == rules = CleanRegistry(catalog)

\* several candidates, and at no level above the severity-only one exactly one
TiedAboveSeverity(ruleId) ==
    /\ Len(rules[ruleId]) > 1
    /\ \A n \in 2..3 : Cardinality(AtLevel(ruleId, n)) # 1

SingleResolved ==
    \A id \in DOMAIN rules :
        Len(rules[id]) = 1 =>
            /\ id \in DOMAIN singleConfigs /\ singleConfigs[id] = rules[id][1].config
            /\ id \in DOMAIN configRules /\ configRules[id] = rules[id][1].config

FileIndexOf(name) == CHOOSE k \in 1..Len(filenames) : filenames[k] = name

CallsOn(k) == {i \in 1..Len(verifyLog) : verifyLog[i].filename = filenames[k]}

\* a file is released only once every batch has been run against it, and the
\* linter is never given a released content
ReleaseAfterUse ==
    /\ \A k \in 1..Len(filenames) :
          sourceCodes[k].val = "null" => Cardinality(CallsOn(k)) = Len(ruleSets)
    /\ \A i \in 1..Len(verifyLog) : verifyLog[i].content # "null"

\* C13 as stated: the linter calls go batch by batch in planner order, each
\* batch being run against every file, in corpus order, before the next batch
\* starts; a file is released only after every batch has been run against it
\* and is never passed to the linter afterwards.
C13_Original ==
    /\ \A i, j \in 1..Len(verifyLog) :
          i < j =>
             \/ verifyLog[i].setIdx < verifyLog[j].setIdx
             \/ /\ verifyLog[i].setIdx = verifyLog[j].setIdx
                /\ FileIndexOf(verifyLog[i].filename) < FileIndexOf(verifyLog[j].filename)
    /\ ReleaseAfterUse

\* C13: the linter calls go file by file in corpus order, every batch being
\* run in planner order against a file before the next file starts; each
\* (file, batch) pair is run exactly once; a file is released only after
\* every batch has been run against it and is never passed to the linter
\* afterwards.
C13_FileByFile ==
    /\ \A i, j \in 1..Len(verifyLog) :
          i < j =>
             \/ FileIndexOf(verifyLog[i].filename) < FileIndexOf(verifyLog[j].filename)
             \/ /\ verifyLog[i].filename = verifyLog[j].filename
                /\ verifyLog[i].setIdx < verifyLog[j].setIdx
    /\ \A i \in 1..Len(verifyLog) : verifyLog[i].setIdx \in 0..(Len(ruleSets) - 1)
    /\ ReleaseAfterUse
    /\ AfterLint =>
          /\ Len(verifyLog) = Len(filenames) * Len(ruleSets)
          /\ \A k \in 1..Len(filenames) : sourceCodes[k].val = "null"

\* two files and several batches: the second batch has been run against the
\* first file before the first batch is run against the second file
C13_Witness ==
    /\ pc = "linted"
    /\ Len(filenames) = 2
    /\ Len(ruleSets) >= 2
    /\ Len(verifyLog) >= 4
    /\ verifyLog[2] = [filename |-> filenames[1], content |-> "code", setIdx |-> 1]
    /\ verifyLog[Len(ruleSets) + 1] =
          [filename |-> filenames[2], content |-> "code", setIdx |-> 0]

\* ------------------------------------------------------------------------
\* C14
\* ------------------------------------------------------------------------
\* candidate i of the rule was in batch i - 1, and that batch was handed to
\* the linter with every file of the corpus
Submitted(ruleId, i) ==
    /\ i <= Len(ruleSets)
    /\ ruleId \in DOMAIN ruleSets[i]
    /\ ruleSets[i][ruleId] = Candidates(ruleId)[i]
    /\ \A k \in 1..Len(filenames) :
          \E c \in 1..Len(verifyLog) :
              verifyLog[c].filename = filenames[k] /\ verifyLog[c].setIdx = i - 1

\* at the end of the evaluation the registry holds, rule by rule and in order,
\* the candidates generateConfigsFromSchema produced
RegistryIsGenerated ==
    pc = "linted" =>
        /\ DOMAIN rules = RegisteredIds
        /\ \A id \in DOMAIN rules :
              /\ Len(rules[id]) = Len(Candidates(id))
              /\ \A i \in 1..Len(rules[id]) : rules[id][i].config = Candidates(id)[i]

\* stripFailingConfigs keeps only entries that ended the evaluation with
\* errorCount 0, and the registry is not written afterwards
SurvivorsErrorFree ==
    /\ (pc = "linted" /\ pc' = "stripped") =>
          \A id \in DOMAIN rules' : \A i \in 1..Len(rules'[id]) :
              \E j \in 1..Len(rules[id]) :
                  rules[id][j] = rules'[id][i] /\ rules[id][j].errorCount = 0
    /\ AfterStrip => rules' = rules

SelectedFromSurvivors ==
    pc = "done" =>
        \A id \in DOMAIN configRules :
            /\ id \in DOMAIN rules
            /\ \E i \in 1..Len(rules[id]) :
                  rules[id][i].config = configRules[id] /\ rules[id][i].errorCount = 0
            /\ \E i \in 1..Len(Candidates(id)) : Candidates(id)[i] = configRules[id]
            /\ Len(Candidates(id)) <= MAX_CONFIG_COMBINATIONS =>
                  \E i \in 1..Len(Candidates(id)) :
                      Candidates(id)[i] = configRules[id] /\ Submitted(id, i)

\* C14: every configuration of the final mapping is a candidate that
\* generateConfigsFromSchema produced for the same rule and whose errorCount
\* was 0 when the evaluation ended; with a linter that reports only rules of
\* the batch it is given, the selected candidate of a rule with at most 16
\* candidates was in a batch that was handed to the linter with every file.
C14_SelectedWereTested ==
    /\ [](RegistryIsGenerated /\ SelectedFromSurvivors)
    /\ [][SurvivorsErrorFree]_vars

\* two files: a candidate of "semi" failed and was stripped, another one was
\* selected after its batch had been run on both files
C14_Witness ==
    /\ pc = "done"
    /\ Len(filenames) = 2
    /\ "semi" \in DOMAIN configRules
    /\ Len(rules["semi"]) < Len(Candidates("semi"))
    /\ \E i \in 2..Len(Candidates("semi")) :
          Candidates("semi")[i] = configRules["semi"] /\ Submitted("semi", i)

\* ------------------------------------------------------------------------
\* C15
\* ------------------------------------------------------------------------
\* the descriptor under test offers no option value
EmptyEnumStep == OptEnum /\ Opt.hasEnum /\ Len(Opt.enum) = 0
EmptyObjectStep == OptObject /\ IsObjectOpt(Opt) /\ Len(OfferingProps(Opt)) = 0

\* C15: addEnums with an empty value list, and addObject on an object
\* descriptor none of whose sub-properties is an enum or a boolean, leave
\* ruleConfigs as it was (same count, same contents, same order), whether it
\* was empty or not.
C15_NoOptionNoChange ==
    [][(EmptyEnumStep \/ EmptyObjectStep) => ruleConfigs' = ruleConfigs]_vars

\* ------------------------------------------------------------------------
\* writeFile (config-initializer.js)
\* ------------------------------------------------------------------------
Guides == {"google", "airbnb", "standard"}

\* getConfigForStyleGuide(guide); a guide config has no env and no ecmaFeatures
getConfigForStyleGuide(guide) ==
    [hasExtends |-> TRUE,
     extends |-> guide,
     hasPlugins |-> guide # "google",
     plugins |-> CASE guide = "airbnb" -> <<"react">>
                   [] guide = "standard" -> <<"standard">>
                   [] OTHER -> <<>>,
     es6 |-> FALSE,
     jsx |-> FALSE]

Answers == [source : {"prompt", "auto"}, es6 : BOOLEAN, jsx : BOOLEAN, react : BOOLEAN]

\* processAnswers(answers): the fields of config that writeFile reads, with
\* env.es6 and ecmaFeatures.jsx
processAnswers(answers) ==
    [hasExtends |-> answers.source = "prompt",
     extends |-> IF answers.source = "prompt" THEN "eslint:recommended" ELSE "",
     hasPlugins |-> answers.jsx /\ answers.react,
     plugins |-> IF answers.jsx /\ answers.react THEN <<"react">> ELSE <<>>,
     es6 |-> answers.es6,
     jsx |-> answers.jsx]

WriteConfigs ==
    {getConfigForStyleGuide(guide) : guide \in Guides}
        \cup {processAnswers(answers) : answers \in Answers}

Formats == {"JavaScript", "YAML", "JSON"}

\* config.extends.indexOf("eslint") over the values extends takes: only
\* "eslint:recommended" holds the word
IndexOfEslint(str) == IF str = "eslint:recommended" THEN 0 ELSE -1

\* plugins.indexOf(name), counted from 0, -1 when absent
IndexOf(list, name) ==
    IF \E i \in 1..Len(list) : list[i] = name
    THEN (CHOOSE i \in 1..Len(list) :
              list[i] = name /\ \A j \in 1..(i - 1) : list[j] # name) - 1
    ELSE -1

InstallsConfig == config.hasExtends /\ IndexOfEslint(config.extends) = -1
InstallsReact == config.hasPlugins /\ IndexOf(config.plugins, "react") >= 0

InitWrite ==
    /\ ExpandIdle
    /\ rules = NoRules
    /\ LintIdle
    /\ LogEmpty
    /\ SelectEmpty
    /\ config \in WriteConfigs
    /\ format \in Formats
    /\ extname = ".js"
    /\ wpc = "extname"
    /\ execs = <<>>
    /\ callbackCalls = <<>>
    /\ failedSteps = <<>>

WriteFrame == UNCHANGED <<expandVars, rules, lintVars, logVars, selectVars, config, format>>

ChooseExtname ==
    /\ wpc = "extname"
    /\ extname' = IF format = "YAML" THEN ".yml"
                  ELSE IF format = "JSON" THEN ".json"
                  ELSE extname
    /\ wpc' = "write"
    /\ UNCHANGED <<execs, callbackCalls, failedSteps>>
    /\ WriteFrame

\* ConfigFile.write throws: callback(e); return
ConfigFileWriteThrows ==
    /\ wpc = "write"
    /\ failedSteps' = Append(failedSteps, "write")
    /\ callbackCalls' = Append(callbackCalls, "error")
    /\ wpc' = "returned"
    /\ UNCHANGED <<extname, execs>>
    /\ WriteFrame

ConfigFileWrite ==
    /\ wpc = "write"
    /\ wpc' = "installs"
    /\ UNCHANGED <<extname, execs, callbackCalls, failedSteps>>
    /\ WriteFrame

\* exec("npm i eslint-config-" + config.extends + " --save-dev", function(err) ..)
InstallConfig ==
    /\ wpc = "installs"
    /\ InstallsConfig
    /\ execs' = Append(execs, [kind |-> "eslint-config", name |-> config.extends])
    /\ wpc' = "execConfig"
    /\ UNCHANGED <<extname, callbackCalls, failedSteps>>
    /\ WriteFrame

\* exec("npm i eslint-plugin-react --save-dev", callback)
InstallReact ==
    /\ wpc = "installs"
    /\ ~InstallsConfig
    /\ InstallsReact
    /\ execs' = Append(execs, [kind |-> "eslint-plugin", name |-> "react"])
    /\ wpc' = "execPlugin"
    /\ UNCHANGED <<extname, callbackCalls, failedSteps>>
    /\ WriteFrame

\* nothing to install: callback()
NoInstall ==
    /\ wpc = "installs"
    /\ ~InstallsConfig
    /\ ~InstallsReact
    /\ callbackCalls' = Append(callbackCalls, "none")
    /\ wpc' = "returned"
    /\ UNCHANGED <<extname, execs, failedSteps>>
    /\ WriteFrame

\* the install of the shared config failed: callback(err); return
ExecConfigFails ==
    /\ wpc = "execConfig"
    /\ failedSteps' = Append(failedSteps, "eslint-config")
    /\ callbackCalls' = Append(callbackCalls, "error")
    /\ wpc' = "returned"
    /\ UNCHANGED <<extname, execs>>
    /\ WriteFrame

\* the install of the shared config succeeded: config.plugins[0] is read; the
\* read throws a TypeError inside exec's callback when config has no plugins
ExecConfigSucceeds ==
    /\ wpc = "execConfig"
    /\ IF config.hasPlugins
       THEN /\ execs' = Append(execs, [kind |-> "eslint-plugin", name |-> config.plugins[1]])
            /\ wpc' = "execPlugin"
       ELSE /\ execs' = execs
            /\ wpc' = "threw"
    /\ UNCHANGED <<extname, callbackCalls, failedSteps>>
    /\ WriteFrame

\* exec calls writeFile's callback itself, with the error
ExecPluginFails ==
    /\ wpc = "execPlugin"
    /\ failedSteps' = Append(failedSteps, "eslint-plugin")
    /\ callbackCalls' = Append(callbackCalls, "error")
    /\ wpc' = "returned"
    /\ UNCHANGED <<extname, execs>>
    /\ WriteFrame

ExecPluginSucceeds ==
    /\ wpc = "execPlugin"
    /\ callbackCalls' = Append(callbackCalls, "none")
    /\ wpc' = "returned"
    /\ UNCHANGED <<extname, execs, failedSteps>>
    /\ WriteFrame

NextWrite ==
    \/ ChooseExtname
    \/ ConfigFileWriteThrows
    \/ ConfigFileWrite
    \/ InstallConfig
    \/ InstallReact
    \/ NoInstall
    \/ ExecConfigFails
    \/ ExecConfigSucceeds
    \/ ExecPluginFails
    \/ ExecPluginSucceeds

SpecWrite == InitWrite /\ [][NextWrite]_vars /\ WF_vars(NextWrite)

\* ------------------------------------------------------------------------
\* C16
\* ------------------------------------------------------------------------
\* no step of writeFile is left to run
WriteEnded == wpc \in {"returned", "threw"}

\* C16: for every configuration of getConfigForStyleGuide and of
\* processAnswers and every outcome of the file write and of the installs,
\* writeFile ends having called its callback exactly once, with an error if
\* and only if a step failed, and hands no command to exec after a failed
\* step.
C16_CallbackOnce ==
    /\ <>WriteEnded
    /\ [](Len(callbackCalls) <= 1)
    /\ [](WriteEnded =>
            /\ Len(callbackCalls) = 1
            /\ callbackCalls[1] = IF failedSteps # <<>> THEN "error" ELSE "none")
    /\ [][failedSteps # <<>> => execs' = execs]_vars

====
